---- MODULE Spec2Model ----
(***************************************************************************)
(* The occupancy state machine of SeatMonitor (src/seat_monitor.py): its   *)
(* construction from the configuration file, the one monitored region fed  *)
(* one raw detection per frame by update_occupancy_status, the periodic    *)
(* snapshot and the daily report, and the run loop's stop and cleanup.     *)
(*                                                                         *)
(* Time is counted in ticks, TicksPerSecond to the second.  isoformat()    *)
(* keeps the full clock reading; strftime('%Y%m%d%H%M%S') keeps whole      *)
(* seconds only.                                                           *)
(***************************************************************************)
EXTENDS Integers, Sequences, FiniteSets, TLC

VARIABLES
    pc,                     \* where the process is: "failed" (the constructor
                            \* raised), "loop" (in run's while loop), "hung"
                            \* (inside a capture_array call that does not
                            \* return), "closed" (the finally block is done)
    config_file,            \* the configuration file the constructor is given
    seat_regions,           \* the ids of self.seat_regions
    faults,                 \* what can go wrong around the process: "disk"
                            \* (a write may fail), "camera" (capture_array may
                            \* not return), "stop" (camera.stop may raise)
    key_q,                  \* 'q' has been pressed and waitKey has not read it
    now,                    \* the clock read by datetime.datetime.now()
    running,                \* self.running
    debug_mode,             \* self.debug_mode
    occupied,               \* occupancy_status[seat]['occupied']
    entry_time,             \* occupancy_status[seat]['entry_time']
    exit_time,              \* occupancy_status[seat]['exit_time']
    duration,               \* occupancy_status[seat]['duration']
    person_id,              \* occupancy_status[seat]['person_id']
    occupancy_history,      \* self.occupancy_history[seat]
    enter_counters,         \* self.enter_counters[seat]
    leave_counters,         \* self.leave_counters[seat]
    records,                \* self.records
    last_save_time,         \* self.last_save_time
    last_report_generation, \* self.last_report_generation
    state_file,             \* the newest current_state_*.json on disk
    csv_kind,               \* data/occupancy_records_<day>.csv: "absent",
                            \* "blank" (a file of no bytes) or "table" (a
                            \* header line and rows)
    records_csv,            \* the rows of data/occupancy_records_<day>.csv
    reports,                \* the days a daily_report_<day>.txt exists for
    last_report,            \* the figures of the daily report written last
    report_call,            \* history: the calls of generate_daily_report so
                            \* far, and of the last one the day asked for,
                            \* what the caller got and whether it wrote
    raised,                 \* history: the last update call ended by raising
    save_attempted,         \* history: the last update called save_current_state
    write_failed,           \* history: a write of the last step failed
    final_save,             \* history: the finally block called save_current_state
    cleanup_raised,         \* history: camera.stop raised in the finally block
    raw_log,                \* history: the raw detections fed, newest last
    final_log,              \* history: the values of final_occupied, newest last
    flips,                  \* history: changes of value in the raw detections
    raw_run,                \* history: how many raw detections in a row, up to
                            \* the last, had the value of the last
    entries,                \* history: entry transitions so far
    exits,                  \* history: exit transitions so far
    valid_exits,            \* history: exit transitions of at least 5 seconds
    frames,                 \* history: calls of update_occupancy_status so far
    script,                 \* the detections still to be replayed (scenarios)
    server,                 \* the web server program that runs: "web_server",
                            \* "web_server_debug" or "web_server_minimal_debug"
    auth_required,          \* config['web']['auth_required']
    frame_file,             \* shared_frames/current_frame.jpg: whether it
                            \* exists, and its bytes as a sequence of chunks
    saver,                  \* the capture side inside _save_frame_to_shared
    saved,                  \* history: the frames the capture side has saved
    test_image,             \* the handler thread inside /test_image
    stream,                 \* the handler thread inside generate_video_frames
    streamed,               \* history: the image yielded last: "none",
                            \* "whole" (a frame as it was written) or "torn"
    response                \* history: the response sent last, the route
                            \* asked for and whether the request carried
                            \* the configured username and password

vars == <<pc, config_file, seat_regions, faults, key_q, last_report,
          csv_kind, report_call, raw_run,
          save_attempted, write_failed, final_save, cleanup_raised,
          now, running, debug_mode, occupied, entry_time, exit_time, duration,
          person_id, occupancy_history, enter_counters, leave_counters, records,
          last_save_time, last_report_generation, state_file, records_csv,
          reports, raised, raw_log, final_log, flips, entries, exits,
          valid_exits, frames, script,
          server, auth_required, frame_file, saver, saved, test_image, stream,
          streamed, response>>

\* the state of the web side
webvars == <<server, auth_required, frame_file, saver, saved, test_image,
             stream, streamed, response>>

\* the state of the monitor process and of its files
monitorvars == <<pc, config_file, seat_regions, faults, key_q, last_report,
                 csv_kind, report_call, raw_run,
                 save_attempted, write_failed, final_save, cleanup_raised,
                 now, running, debug_mode, occupied, entry_time, exit_time,
                 duration, person_id, occupancy_history, enter_counters,
                 leave_counters, records, last_save_time,
                 last_report_generation, state_file, records_csv,
                 reports, raised, raw_log, final_log, flips, entries, exits,
                 valid_exits, frames, script>>

(***************************************************************************)
(* Bounds of the model.                                                    *)
(***************************************************************************)
TicksPerSecond == 5
FramePeriod == 1
MaxFlips == 2
MaxCount == 21
MaxDelta == 2
MaxSeats == 2
MaxRows == 3

(***************************************************************************)
(* Constants of the program.                                               *)
(***************************************************************************)
HistoryLen == 15
EnterThreshold == 5
ExitThreshold == 20
MinValidSeconds == 5
SaveInterval == 60
DefaultSeatId == 1
SecondsPerHour == 3600

None == -1

\* n seconds, in ticks
Seconds(n) == n * TicksPerSecond

\* the ticks of a calendar day
TicksPerDay == 24 * 60 * 60 * TicksPerSecond

\* The clock reading at which the process is constructed: late enough in a
\* day for midnight to pass while it runs.
StartTime == TicksPerDay - 4 * TicksPerSecond

\* current_time.date()
DateOf(t) == t \div TicksPerDay

\* current_time.strftime('%Y%m%d%H%M%S'): the clock reading cut to whole seconds
SecondStamp(t) == t \div TicksPerSecond

\* f"person_{current_time.strftime('%Y%m%d%H%M%S')}_{seat_id}"
PersonId(t) == SecondStamp(t)

\* s[-n:]
LastN(s, n) == IF Len(s) <= n THEN s ELSE SubSeq(s, Len(s) - n + 1, Len(s))

\* sum(history)
CountTrue(s) == Cardinality({i \in DOMAIN s : s[i]})

AllEqual(s, b) == \A i \in DOMAIN s : s[i] = b

\* history_occupied_ratio > 0.8.  The quotient of two integers up to 15 is the
\* float nearest the exact ratio, so it exceeds the literal 0.8 exactly when
\* the exact ratio does.
FinalOccupiedAll(h) == CountTrue(h) = Len(h)
FinalOccupied(h) == CountTrue(h) * 10 > 8 * Len(h)

\* self.occupancy_history[seat_id].append(is_occupied); [-15:]
PushHistory(h, detected) == LastN(Append(h, detected), HistoryLen)

\* not current_status['occupied'] and self.enter_counters[seat_id] >= 5
EnterConfirmedLoose(occ, cnt) == ~occ /\ cnt >= EnterThreshold - 1
EnterConfirmedAgain(occ, cnt) == cnt >= EnterThreshold
EnterConfirmed(occ, cnt) == ~occ /\ cnt >= EnterThreshold

\* current_status['occupied'] and self.leave_counters[seat_id] >= 20
ExitConfirmedLoose(occ, cnt) == occ /\ cnt >= ExitThreshold - 1
ExitConfirmed(occ, cnt) == occ /\ cnt >= ExitThreshold

\* (current_time - current_status['entry_time']).total_seconds(), in ticks
DurationDrift(entry, t) == t - entry + 1
Duration(entry, t) == t - entry

\* duration >= 5
IsValidDuration(d) == d >= MinValidSeconds * TicksPerSecond

\* the dictionary appended to self.records at an entry (seat_id and seat_name
\* are those of the one monitored region and are left out)
EnterRecordClosed(t, pid) ==
    [timestamp |-> t, person_id |-> pid, action |-> "enter",
     exit_time |-> t, duration_seconds |-> 0]
EnterRecord(t, pid) ==
    [timestamp |-> t, person_id |-> pid, action |-> "enter",
     exit_time |-> None, duration_seconds |-> None]

\* for record in reversed(self.records): the first match gets exit_time and
\* duration_seconds, and the search stops
MatchIndexes(recs, pid) ==
    {i \in DOMAIN recs : recs[i].person_id = pid /\ recs[i].action = "enter"}

Max(S) == CHOOSE x \in S : \A y \in S : y <= x
Min(S) == CHOOSE x \in S : \A y \in S : x <= y

MarkExitFirst(recs, pid, t, dur) ==
    IF MatchIndexes(recs, pid) = {} THEN recs
    ELSE [recs EXCEPT ![Min(MatchIndexes(recs, pid))] =
              [@ EXCEPT !.exit_time = t, !.duration_seconds = dur]]
MarkExit(recs, pid, t, dur) ==
    IF MatchIndexes(recs, pid) = {} THEN recs
    ELSE [recs EXCEPT ![Max(MatchIndexes(recs, pid))] =
              [@ EXCEPT !.exit_time = t, !.duration_seconds = dur]]

\* if self.records and self.records[-1]['action'] == 'enter' and
\*    self.records[-1]['person_id'] == current_status['person_id']: pop()
PopOldest(recs, pid) == IF recs # <<>> THEN Tail(recs) ELSE recs
PopOwn(recs, pid) ==
    IF /\ recs # <<>>
       /\ recs[Len(recs)].action = "enter"
       /\ recs[Len(recs)].person_id = pid
    THEN SubSeq(recs, 1, Len(recs) - 1)
    ELSE recs

\* what save_current_state writes: occupancy_status and the report date
SnapshotFree(t, occ, ent, ext, dur, pid, lrg) ==
    [timestamp |-> t, occupied |-> FALSE, entry_time |-> None, exit_time |-> t,
     duration |-> dur, person_id |-> pid, last_report_generation |-> lrg]
Snapshot(t, occ, ent, ext, dur, pid, lrg) ==
    [timestamp |-> t, occupied |-> occ, entry_time |-> ent, exit_time |-> ext,
     duration |-> dur, person_id |-> pid, last_report_generation |-> lrg]

\* generate_daily_report(date): a report is written only when the day's
\* occupancy_records file exists and pd.read_csv can read it (of a file of no
\* bytes it raises EmptyDataError, which the except branch logs); the set of
\* days with a report afterwards
ReportsAfter(reps, kind, day) == IF kind = "table" THEN reps \cup {day} ELSE reps

\* what the caller of generate_daily_report gets: the function returns None
\* on every path (the early return, the end of the try, the except branch)
ReportOutcomeRaising(kind) == IF kind = "table" THEN "returned" ELSE "raised"
ReportOutcome(kind) == "returned"

\* yesterday = current_time.date() - datetime.timedelta(days=1)
ReportDayToday(t) == DateOf(t)
ReportDay(t) == DateOf(t) - 1

\* the call of generate_daily_report for a day, after n earlier calls
ReportCall(n, day, kind, ok) ==
    [calls |-> n + 1, day |-> day, outcome |-> ReportOutcome(kind),
     wrote |-> (kind = "table" /\ ok)]

\* current_status['entry_time'] = current_time, in the entry branch only
EntryTimeKept(entering, t, old) == old
EntryTimeAfter(entering, t, old) == IF entering THEN t ELSE old

(***************************************************************************)
(* The configuration file and what the constructor makes of it.            *)
(***************************************************************************)
\* a configuration file: one that cannot be read as JSON (absent, or not
\* JSON), or one that lists n seats, with the ids 1 .. n
ConfigOf(ok, n) == [readable |-> ok, seats |-> [i \in 1 .. n |-> i]]

Configs == {ConfigOf(FALSE, 0)} \cup {ConfigOf(TRUE, n) : n \in 0 .. MaxSeats}

\* the configuration of one seat
OneSeat == ConfigOf(TRUE, 1)

\* load_config's except branch calls log_message before it returns the
\* default configuration; log_message reads self.log_file, which __init__
\* assigns only after load_config has returned, so the call ends with an
\* AttributeError that leaves load_config and __init__
LoadConfigRaises(cfg) == ~cfg.readable

\* load_config: config['seats'] = [config['seats'][0]]
LoadedSeats(cfg) == IF cfg.seats = <<>> THEN <<>> ELSE <<cfg.seats[1]>>

\* __init__: the first seat of the configuration, or else the full-frame
\* region with id 1
SeatRegionsNoDefault(seats) == IF seats # <<>> THEN <<seats[1]>> ELSE <<>>
SeatRegions(seats) == IF seats # <<>> THEN <<seats[1]>> ELSE <<DefaultSeatId>>

\* initialize_occupancy_status: the keys of self.occupancy_status and of
\* self.leave_counters
StatusKeys(regions) == {regions[i] : i \in DOMAIN regions}

(***************************************************************************)
(* Writes to the disk, and the daily report.                               *)
(***************************************************************************)
\* whether a write succeeds
DiskOutcomes == IF "disk" \in faults THEN BOOLEAN ELSE {TRUE}

\* save_current_state and generate_daily_report keep a failed write inside
\* their own try/except: it is logged, and nothing is raised to the caller
WriteRaisesUncaught(ok) == ~ok
WriteRaises(ok) == FALSE

\* df['duration_seconds'].sum()
RECURSIVE SumDurations(_)
SumDurations(rows) ==
    IF rows = <<>> THEN 0
    ELSE Head(rows).duration_seconds + SumDurations(Tail(rows))

\* the rows groupby('seat_name') puts in the group of a seat
SeatRowsAll(rows, seat) == rows
SeatRows(rows, seat) == SelectSeq(rows, LAMBDA r : r.seat_name = seat)

\* f"{seconds / 3600:.2f}": hours to two decimals, as hundredths of an hour.
\* (A total that is an odd multiple of 18 seconds lies midway between two
\* hundredths and is printed by the binary value of the quotient; the
\* durations drawn below are multiples of 20 seconds, whose sums are never
\* such a total.)
HoursShown(seconds) == (seconds * 100 + SecondsPerHour \div 2) \div SecondsPerHour

\* the figures generate_daily_report writes
DailyReport(rows) ==
    [total_records  |-> Len(rows),
     unique_persons |-> Cardinality({rows[i].person_id : i \in DOMAIN rows}),
     total_hours    |-> HoursShown(SumDurations(rows)),
     seats          |->
        [s \in {rows[i].seat_name : i \in DOMAIN rows} |->
            [count   |-> Len(SeatRows(rows, s)),
             persons |-> Cardinality({SeatRows(rows, s)[i].person_id :
                                          i \in DOMAIN SeatRows(rows, s)}),
             hours   |-> HoursShown(SumDurations(SeatRows(rows, s)))]]]

\* the finally block of run: the snapshot has a try of its own, after the
\* one around camera.stop and destroyAllWindows
FinalSaveSkippedOnCleanupError(stop_ok) == stop_ok
FinalSaveReached(stop_ok) == TRUE

\* whether camera.stop and destroyAllWindows return
StopOutcomes == IF "stop" \in faults THEN BOOLEAN ELSE {TRUE}

(***************************************************************************)
(* The web side: the shared frame file, the three server programs and the  *)
(* requests they take.                                                     *)
(***************************************************************************)
\* the chunks a frame image is written and read in
FrameChunks == 2

\* the frames the capture side saves in a run of the model
MaxSaved == 2

\* the chunk a /test_image handler writes, and the chunk of a file region
\* nothing was written to
TestImageId == 0
Hole == -1

Servers == {"web_server", "web_server_debug", "web_server_minimal_debug"}

NoResponse ==
    [route |-> "none", authorized |-> FALSE, code |-> 0, body |-> "none"]

\* no web server runs and no frame was saved
WebIdle ==
    /\ server = "web_server"
    /\ auth_required = FALSE
    /\ frame_file = [exists |-> FALSE, bytes |-> <<>>]
    /\ saver = [pc |-> "idle", id |-> 0]
    /\ saved = 0
    /\ test_image = [pc |-> "idle", pos |-> 0]
    /\ stream = [pc |-> "off", buf |-> <<>>]
    /\ streamed = "none"
    /\ response = NoResponse

(***************************************************************************)
(* The state after SeatMonitor.__init__.                                   *)
(***************************************************************************)
InitMonitor ==
    \* when the constructor raised there is no object, and nothing below is
    \* read
    /\ pc = IF LoadConfigRaises(config_file) THEN "failed" ELSE "loop"
    /\ seat_regions = IF LoadConfigRaises(config_file) THEN <<>>
                      ELSE SeatRegions(LoadedSeats(config_file))
    /\ key_q = FALSE
    /\ last_report = None
    /\ report_call = [calls |-> 0, day |-> None, outcome |-> "none", wrote |-> FALSE]
    /\ raw_run = 0
    /\ save_attempted = FALSE
    /\ write_failed = FALSE
    /\ final_save = FALSE
    /\ cleanup_raised = FALSE
    /\ now = StartTime
    /\ running = TRUE
    /\ debug_mode \in BOOLEAN
    /\ occupied = FALSE
    /\ entry_time = None
    /\ exit_time = None
    /\ duration = 0
    /\ person_id = None
    /\ occupancy_history = <<>>
    /\ enter_counters = 0
    /\ leave_counters = 0
    /\ records = <<>>
    /\ last_save_time = now
    /\ last_report_generation = DateOf(now)
    /\ state_file = None
    /\ reports = {}
    /\ raised = FALSE
    /\ raw_log = <<>>
    /\ final_log = <<>>
    /\ flips = 0
    /\ entries = 0
    /\ exits = 0
    /\ valid_exits = 0
    /\ frames = 0

Init ==
    /\ config_file = OneSeat
    /\ faults = {}
    /\ csv_kind = "absent"
    /\ records_csv = <<>>
    /\ InitMonitor
    /\ WebIdle
    /\ script = <<>>

(***************************************************************************)
(* update_occupancy_status, called with a frame the detector judges        *)
(* `detected`, dt ticks after the previous reading of the clock.           *)
(***************************************************************************)
Update(detected, dt) ==
    \E disk_ok \in DiskOutcomes :
    LET t        == now + dt
        hist     == PushHistory(occupancy_history, detected)
        fin      == FinalOccupied(hist)
        ec       == IF fin THEN enter_counters + 1 ELSE 0
        lc       == IF fin THEN 0 ELSE leave_counters + 1
        entering == fin /\ EnterConfirmed(occupied, ec)
        exiting  == ~fin /\ ExitConfirmed(occupied, lc)
        timed    == exiting /\ entry_time # None
        dur      == Duration(entry_time, t)
        valid    == timed /\ IsValidDuration(dur)
        short    == timed /\ ~IsValidDuration(dur)
        \* line 457 reads timestamp_str, which this call has not assigned
        raises   == short /\ debug_mode
        marked   == MarkExit(records, person_id, t, dur)
        saving   == ~raises /\ (t - last_save_time) >= SaveInterval * TicksPerSecond
        \* a write error that leaves save_current_state
        failing  == saving /\ WriteRaises(disk_ok)
        rolling  == ~raises /\ ~failing /\ DateOf(t) > last_report_generation
        reporting == rolling /\ csv_kind = "table"
        \* run reaches cv2.waitKey only when the update has returned
        polling  == ~raises /\ ~failing
        lrg      == IF rolling THEN DateOf(t) ELSE last_report_generation
        pid      == IF entering THEN PersonId(t) ELSE person_id
        ent      == EntryTimeAfter(entering, t, entry_time)
        ext      == IF exiting THEN t ELSE exit_time
        drn      == IF timed THEN dur ELSE duration
        occ      == IF entering THEN TRUE ELSE IF exiting THEN FALSE ELSE occupied
    IN  /\ pc = "loop"
        /\ running
        /\ now' = t
        /\ occupancy_history' = hist
        /\ enter_counters' = ec
        /\ leave_counters' = lc
        /\ occupied' = occ
        /\ entry_time' = ent
        /\ person_id' = pid
        /\ exit_time' = ext
        /\ duration' = drn
        /\ records' = IF entering THEN Append(records, EnterRecord(t, pid))
                      ELSE IF valid THEN marked
                      ELSE IF short /\ debug_mode THEN marked
                      ELSE IF short THEN PopOwn(marked, person_id)
                      ELSE records
        /\ raised' = (raises \/ failing)
        /\ last_save_time' = IF saving /\ ~failing THEN t ELSE last_save_time
        /\ save_attempted' = saving
        /\ write_failed' = ((saving \/ reporting) /\ ~disk_ok)
        \* the snapshot is taken before the report date is brought forward
        /\ state_file' = IF saving /\ disk_ok
                         THEN Snapshot(t, occ, ent, ext, drn, pid, last_report_generation)
                         ELSE state_file
        /\ last_report_generation' = lrg
        /\ reports' = IF rolling /\ disk_ok
                      THEN ReportsAfter(reports, csv_kind, ReportDay(t))
                      ELSE reports
        /\ report_call' = IF rolling
                          THEN ReportCall(report_call.calls, ReportDay(t), csv_kind, disk_ok)
                          ELSE report_call
        /\ last_report' = IF reporting /\ disk_ok THEN DailyReport(records_csv)
                          ELSE last_report
        \* if cv2.waitKey(1) & 0xFF == ord('q'): self.running = False
        /\ running' = IF polling /\ key_q THEN FALSE ELSE running
        /\ key_q' = IF polling THEN FALSE ELSE key_q
        /\ raw_log' = LastN(Append(raw_log, detected), ExitThreshold)
        /\ final_log' = LastN(Append(final_log, fin), ExitThreshold)
        /\ flips' = IF raw_log # <<>> /\ raw_log[Len(raw_log)] # detected
                    THEN flips + 1 ELSE flips
        /\ raw_run' = IF raw_log # <<>> /\ raw_log[Len(raw_log)] = detected
                      THEN raw_run + 1 ELSE 1
        /\ entries' = IF entering THEN entries + 1 ELSE entries
        /\ exits' = IF exiting THEN exits + 1 ELSE exits
        /\ valid_exits' = IF valid THEN valid_exits + 1 ELSE valid_exits
        /\ frames' = frames + 1
        /\ UNCHANGED <<pc, config_file, seat_regions, faults, final_save,
                       cleanup_raised, debug_mode, csv_kind, records_csv>>
        /\ UNCHANGED webvars

\* How far the model follows the program on free detections.
WithinBounds ==
    /\ flips' <= MaxFlips
    /\ enter_counters' <= MaxCount
    /\ leave_counters' <= MaxCount

\* One pass of run's loop over a frame the camera supplied, FramePeriod after
\* the pass before it; the detector may judge the frame either way.
Observe ==
    /\ script = <<>>
    /\ \E detected \in BOOLEAN : Update(detected, FramePeriod)
    /\ WithinBounds
    /\ UNCHANGED script

\* One pass of run's loop over the next frame of a scenario, the clock having
\* advanced by one of the delays the scenario allows for that frame.
Replay ==
    /\ script # <<>>
    /\ \E dt \in Head(script).delays : Update(Head(script).detected, dt)
    /\ script' = Tail(script)

(***************************************************************************)
(* run: the ways out of the loop, and the finally block.                   *)
(***************************************************************************)
\* The finally block: camera.stop and destroyAllWindows in one try, the last
\* snapshot in a second, today's report in a third, then the closing log
\* line.
Finally ==
    \E stop_ok \in StopOutcomes, disk_ok \in DiskOutcomes :
    LET saving    == FinalSaveReached(stop_ok)
        reporting == csv_kind = "table"
    IN  /\ pc' = "closed"
        /\ cleanup_raised' = ~stop_ok
        /\ final_save' = saving
        /\ state_file' = IF saving /\ disk_ok
                         THEN Snapshot(now, occupied, entry_time, exit_time,
                                       duration, person_id, last_report_generation)
                         ELSE state_file
        /\ reports' = IF disk_ok THEN ReportsAfter(reports, csv_kind, DateOf(now))
                      ELSE reports
        /\ report_call' = ReportCall(report_call.calls, DateOf(now), csv_kind, disk_ok)
        /\ last_report' = IF reporting /\ disk_ok THEN DailyReport(records_csv)
                          ELSE last_report
        /\ write_failed' = ((saving \/ reporting) /\ ~disk_ok)
        /\ UNCHANGED <<config_file, seat_regions, faults, now, debug_mode,
                       csv_kind, raw_run, occupied, entry_time, exit_time, duration, person_id,
                       occupancy_history, enter_counters, leave_counters,
                       records, last_save_time, last_report_generation,
                       records_csv, raised, save_attempted, raw_log, final_log,
                       flips, entries, exits, valid_exits, frames, script>>
        /\ UNCHANGED webvars

\* 'q' arrives while cv2.waitKey waits, at the end of a pass whose update
\* has returned: self.running = False, the while loop ends, and the finally
\* block runs.
Quit ==
    /\ pc = "loop"
    /\ running
    /\ frames > 0
    /\ ~raised
    /\ running' = FALSE
    /\ key_q' = FALSE
    /\ Finally

\* 'q' is pressed at any other moment, and waits to be read.
PressQ ==
    /\ pc \in {"loop", "hung"}
    /\ running
    /\ ~key_q
    /\ key_q' = TRUE
    /\ UNCHANGED <<pc, config_file, seat_regions, faults, last_report,
                   csv_kind, report_call, raw_run,
                   save_attempted, write_failed, final_save, cleanup_raised,
                   now, running, debug_mode, occupied, entry_time, exit_time,
                   duration, person_id, occupancy_history, enter_counters,
                   leave_counters, records, last_save_time,
                   last_report_generation, state_file, records_csv, reports,
                   raised, raw_log, final_log, flips, entries, exits,
                   valid_exits, frames, script>>
    /\ UNCHANGED webvars

\* while self.running: the test fails after a pass that read 'q'.
LoopExit ==
    /\ pc = "loop"
    /\ ~running
    /\ Finally
    /\ UNCHANGED <<running, key_q>>

\* except KeyboardInterrupt: the loop is left wherever it is; self.running
\* stays as it was.
Interrupt ==
    /\ pc \in {"loop", "hung"}
    /\ Finally
    /\ UNCHANGED <<running, key_q>>

\* frame = self.camera.capture_array(): the call has no timeout, and a camera
\* that delivers no frame keeps the loop inside it.
CaptureHangs ==
    /\ pc = "loop"
    /\ running
    /\ "camera" \in faults
    /\ pc' = "hung"
    /\ UNCHANGED <<config_file, seat_regions, faults, key_q, last_report,
                   csv_kind, report_call, raw_run,
                   save_attempted, write_failed, final_save, cleanup_raised,
                   now, running, debug_mode, occupied, entry_time, exit_time,
                   duration, person_id, occupancy_history, enter_counters,
                   leave_counters, records, last_save_time,
                   last_report_generation, state_file, records_csv, reports,
                   raised, raw_log, final_log, flips, entries, exits,
                   valid_exits, frames, script>>
    /\ UNCHANGED webvars

Next == Observe \/ Quit

Spec == Init /\ [][Next]_vars

(***************************************************************************)
(* Scenarios: fixed detection sequences fed to a freshly constructed       *)
(* monitor, under every timing within the bounds.                          *)
(***************************************************************************)
Rep(b, n) == [i \in 1 .. n |-> b]

\* the frames of a scenario: the detections, each with the delays allowed
Timed(detections, delays, pauseAt, pause) ==
    [i \in DOMAIN detections |->
        [detected |-> detections[i],
         delays   |-> IF i \in pauseAt THEN delays \cup {pause} ELSE delays]]

\* enter_threshold positives, then one negative more than exit_threshold,
\* every frame after any delay up to MaxDelta
ScenarioA ==
    Timed(Rep(TRUE, EnterThreshold) \o Rep(FALSE, ExitThreshold + 1),
          0 .. MaxDelta, {}, 0)

\* two occupancy intervals: entries on frames 5 and 31, exits on frames 26
\* and 53
TwoIntervals ==
    Rep(TRUE, 5) \o Rep(FALSE, 9) \o Rep(TRUE, 17) \o Rep(FALSE, 22)

\* a pause of five seconds may fall inside either interval
PauseAt == {10, 40}
LongPause == MinValidSeconds * TicksPerSecond

\* the two intervals in a burst (no time passes but in the pauses)
ScenarioBurst == Timed(TwoIntervals, {0}, PauseAt, LongPause)

\* the two intervals at the frame period
ScenarioPaced == Timed(TwoIntervals, {FramePeriod}, PauseAt, FramePeriod + LongPause)

Scenarios == {ScenarioA, ScenarioBurst, ScenarioPaced}

ScenarioInit ==
    /\ config_file = OneSeat
    /\ faults = {}
    /\ csv_kind = "absent"
    /\ records_csv = <<>>
    /\ InitMonitor
    /\ WebIdle
    /\ script \in Scenarios

ScenarioNext == Replay \/ Quit

ScenarioSpec == ScenarioInit /\ [][ScenarioNext]_vars

(***************************************************************************)
(* Construction from any configuration file, then the first frames.        *)
(***************************************************************************)
\* enter_threshold positives, each at once or a frame period later
ScenarioStart == Timed(Rep(TRUE, EnterThreshold), {0, FramePeriod}, {}, 0)

ConstructInit ==
    /\ config_file \in Configs
    /\ faults = {}
    /\ csv_kind = "absent"
    /\ records_csv = <<>>
    /\ InitMonitor
    /\ WebIdle
    /\ script = ScenarioStart

ConstructNext == Replay \/ Quit

ConstructSpec == ConstructInit /\ [][ConstructNext]_vars

(***************************************************************************)
(* The run loop under faults: a scenario with pauses long enough for the   *)
(* periodic snapshot, a disk that may refuse a write, a camera that may    *)
(* stop delivering frames or fail to stop, and both ways of stopping.      *)
(***************************************************************************)
\* the frames of ScenarioA and one negative more, in a burst, with pauses:
\* before the entry (frame 5), inside the interval (frame 15) and before the
\* exit (frame 26)
ScenarioPauses ==
    [i \in 1 .. EnterThreshold + ExitThreshold + 2 |->
        [detected |-> i <= EnterThreshold,
         delays   |->
            IF i = EnterThreshold
            THEN {0, Seconds(SaveInterval - MinValidSeconds + 2)}
            ELSE IF i \in {15, EnterThreshold + ExitThreshold + 1}
            THEN {0, Seconds(MinValidSeconds - 1), Seconds(SaveInterval)}
            ELSE {0}]]

Faults == {"disk", "camera", "stop"}

RunInit ==
    /\ config_file = OneSeat
    /\ faults \in SUBSET Faults
    /\ csv_kind = "absent"
    /\ records_csv = <<>>
    /\ InitMonitor
    /\ WebIdle
    /\ script = ScenarioPauses

RunNext == Replay \/ PressQ \/ CaptureHangs \/ LoopExit \/ Quit \/ Interrupt

RunSpec == RunInit /\ [][RunNext]_vars

(***************************************************************************)
(* The daily report over any day's file of records: the monitor is started *)
(* next to a file of up to MaxRows rows, runs over midnight and is         *)
(* stopped.                                                                *)
(***************************************************************************)
SeatNames == {"A", "B"}
Persons == {"p1", "p2"}

\* durations in seconds
DurationChoices == {20, 100}

\* the columns of occupancy_records_<day>.csv that the report reads
Rows == [seat_name : SeatNames, person_id : Persons,
         duration_seconds : DurationChoices]

CsvKinds == {"absent", "blank", "table"}

\* the rows under the header line of a file that has one
CsvFiles == UNION {[1 .. n -> Rows] : n \in 0 .. MaxRows}

\* two frames, the second of them after midnight when it comes late
ScenarioMidnight == Timed(Rep(TRUE, 2), {0}, {2}, Seconds(MinValidSeconds))

ReportInit ==
    /\ config_file = OneSeat
    /\ faults = {}
    /\ csv_kind \in CsvKinds
    /\ records_csv \in IF csv_kind = "table" THEN CsvFiles ELSE {<<>>}
    /\ InitMonitor
    /\ WebIdle
    /\ script = ScenarioMidnight

ReportNext == Replay \/ Quit

ReportSpec == ReportInit /\ [][ReportNext]_vars

(***************************************************************************)
(* Properties.                                                             *)
(***************************************************************************)
Last(s) == s[Len(s)]

EntryStep == ~occupied /\ occupied'
ExitStep == occupied /\ ~occupied'
FrameStep == frames' = frames + 1

Completed(r) == r.exit_time # None

\* C1 (as stated): the region changes from Free to Occupied only on a frame
\* at which each of the 5 most recent raw detections was positive.
C1_EntryNeedsFiveRawPositives ==
    [][EntryStep =>
          /\ Len(raw_log') >= EnterThreshold
          /\ AllEqual(LastN(raw_log', EnterThreshold), TRUE)]_vars

\* C1 (amended): the region changes from Free to Occupied only on a frame at
\* which each of the 5 most recent smoothed detections (final_occupied: more
\* than 80% of the history window positive) was positive.
C1_EntryNeedsFiveSmoothedPositives ==
    [][EntryStep =>
          /\ Len(final_log') >= EnterThreshold
          /\ AllEqual(LastN(final_log', EnterThreshold), TRUE)]_vars

\* an entry on a frame whose last 5 raw detections hold a negative
C1_Witness ==
    /\ occupied
    /\ entry_time = now
    /\ Len(raw_log) >= EnterThreshold
    /\ ~AllEqual(LastN(raw_log, EnterThreshold), TRUE)

\* C2 (as stated): while Occupied the region changes to Free only on a frame
\* at which each of the 20 most recent raw detections was negative, and a
\* positive raw detection leaves it Occupied with entry_time unchanged.
C2_ExitNeedsTwentyRawNegatives ==
    [][/\ ExitStep =>
            /\ Len(raw_log') >= ExitThreshold
            /\ AllEqual(raw_log', FALSE)
       /\ (occupied /\ FrameStep /\ Last(raw_log')) =>
            /\ occupied'
            /\ exits' = exits
            /\ entry_time' = entry_time]_vars

\* C2 (amended): while Occupied every smoothed-positive frame resets the
\* count of consecutive smoothed negatives and leaves the region Occupied
\* with no exit and entry_time unchanged; the region changes to Free only on
\* a frame at which each of the 20 most recent smoothed detections was
\* negative.
C2_ExitNeedsTwentySmoothedNegatives ==
    [][/\ ExitStep =>
            /\ Len(final_log') >= ExitThreshold
            /\ AllEqual(final_log', FALSE)
       /\ (occupied /\ FrameStep /\ Last(final_log')) =>
            /\ leave_counters' = 0
            /\ occupied'
            /\ exits' = exits
            /\ entry_time' = entry_time]_vars

\* an exit on a frame whose last 20 raw detections hold a positive
C2_Witness ==
    /\ ~occupied
    /\ exits = 1
    /\ exit_time = now
    /\ ~AllEqual(raw_log, FALSE)

InScenarioA == frames + Len(script) = Len(ScenarioA)

\* C3 (as stated): 5 positives and then 20 negatives fed to a fresh region
\* yield one entry and, on the 20th negative, one exit.
C3_ExitOnTwentiethNegative ==
    (InScenarioA /\ frames = EnterThreshold + ExitThreshold) =>
        (entries = 1 /\ exits = 1 /\ ~occupied)

\* C3 (amended): 5 positives and then 21 negatives fed to a fresh region
\* yield exactly one entry, on the 5th positive with entry_time that frame's
\* time, and exactly one exit, on the 21st negative, whose duration is the
\* time of the 21st negative minus the time of the 5th positive; after the
\* 20th negative the region is still Occupied.
C3_ScenarioA ==
    [][(InScenarioA /\ FrameStep) =>
          /\ frames' < EnterThreshold => (~occupied' /\ entries' = 0)
          /\ frames' = EnterThreshold =>
                (EntryStep /\ entries' = 1 /\ exits' = 0 /\ entry_time' = now')
          /\ (frames' > EnterThreshold /\ frames' <= EnterThreshold + ExitThreshold) =>
                /\ occupied /\ occupied'
                /\ entries' = 1 /\ exits' = 0
                /\ entry_time' = entry_time
          /\ frames' = EnterThreshold + ExitThreshold + 1 =>
                /\ ExitStep
                /\ entries' = 1 /\ exits' = 1
                /\ entry_time' = entry_time
                /\ exit_time' = now'
                /\ duration' = now' - entry_time]_vars

\* the scenario has been fed to its end
C3_Witness ==
    /\ InScenarioA
    /\ script = <<>>
    /\ entries = 1 /\ exits = 1
    /\ duration = exit_time - entry_time
    /\ duration > 0

\* C4: after an exit whose duration is below 5 seconds, in debug mode or
\* not, the region is Free and self.records holds no record of the interval.
C4_ShortExitLeavesNoRecord ==
    [][(ExitStep /\ ~IsValidDuration(now' - entry_time)) =>
          /\ ~occupied'
          /\ \A i \in DOMAIN records' : records'[i].timestamp # entry_time]_vars

\* C5: update_occupancy_status never ends by raising.
C5_UpdateNeverRaises == ~raised

\* C6: every record that carries an exit_time has duration_seconds equal to
\* that exit_time minus its own timestamp; an exit is attached to the record
\* of the interval being closed (the one stamped with the region's
\* entry_time), and to no earlier record.
C6_DurationIsExitMinusEntry ==
    /\ [](\A i \in DOMAIN records :
            Completed(records[i]) =>
                records[i].duration_seconds = records[i].exit_time - records[i].timestamp)
    /\ [][ExitStep =>
            LET n == Len(records) IN
            /\ n > 0
            /\ records[n].timestamp = entry_time
            /\ ~Completed(records[n])
            /\ \A i \in 1 .. n - 1 : i \in DOMAIN records' /\ records'[i] = records[i]
            /\ Len(records') = n =>
                  records'[n] = [records[n] EXCEPT !.exit_time = now',
                                                   !.duration_seconds = now' - entry_time]
          ]_vars

\* a second interval has been closed and recorded after an earlier one
C6_Witness ==
    /\ Len(records) = 2
    /\ Completed(records[1]) /\ Completed(records[2])
    /\ records[2].person_id = records[1].person_id
    /\ records[2].duration_seconds > 0
    /\ exits = 2

\* C7: while the region is Occupied a positive detection produces no entry:
\* no record is appended and entry_time and person_id keep their values.
C7_NoReentryWhileOccupied ==
    [][(occupied /\ FrameStep /\ Last(raw_log')) =>
          /\ entries' = entries
          /\ Len(records') <= Len(records)
          /\ entry_time' = entry_time
          /\ person_id' = person_id]_vars

\* positives have been fed after the entry
C7_Witness ==
    /\ occupied
    /\ entry_time < now
    /\ Last(raw_log)
    /\ enter_counters > EnterThreshold

\* C8: the completed records of self.records are as many as the exit
\* transitions of at least 5 seconds.
C8_OneRecordPerValidExit ==
    Cardinality({i \in DOMAIN records : Completed(records[i])}) = valid_exits

\* C9 (as stated): a record is added only at an exit transition, and a
\* record in the list is never changed and never removed.
C9_RecordsAppendOnlyAtExit ==
    [][/\ Len(records') > Len(records) => ExitStep
       /\ \A i \in DOMAIN records :
            i \in DOMAIN records' /\ records'[i] = records[i]]_vars

\* C9 (amended): a record is added only at an entry transition, as an
\* 'enter' record without exit_time; only the exit transition of its own
\* interval changes it, adding exit_time and duration_seconds, or removes it;
\* a record that carries an exit_time is never changed and never removed.
C9_RecordsSettleAtExit ==
    [][/\ records' # records => (EntryStep \/ ExitStep)
       /\ EntryStep => records' = Append(records, EnterRecord(now', person_id'))
       /\ ExitStep =>
            \/ records' = SubSeq(records, 1, Len(records) - 1)
            \/ /\ Len(records') = Len(records)
               /\ \A i \in DOMAIN records :
                    \/ records'[i] = records[i]
                    \/ /\ i = Len(records)
                       /\ records'[i] = [records[i] EXCEPT
                                            !.exit_time = records'[i].exit_time,
                                            !.duration_seconds = records'[i].duration_seconds]
       /\ \A i \in DOMAIN records :
            Completed(records[i]) =>
                i \in DOMAIN records' /\ records'[i] = records[i]]_vars

\* a completed record has stayed as it was through a later interval that was
\* removed
C9_Witness ==
    /\ exits = 2
    /\ Len(records) = 1
    /\ Completed(records[1])
    /\ records[1].exit_time < exit_time

\* C10: when the process has ended, every completed interval of at least 5
\* seconds is in the day's occupancy-records file.
C10_CompletedRecordsArePersisted ==
    ~running =>
        \A i \in DOMAIN records :
            (Completed(records[i]) /\ IsValidDuration(records[i].duration_seconds)) =>
                \E j \in DOMAIN records_csv : records_csv[j] = records[i]

\* C11: in every reachable state, occupied implies that entry_time holds a
\* time.
C11_OccupiedHasEntryTime == occupied => entry_time # None

\* the region is Occupied again, after an earlier interval
C11_Witness ==
    /\ occupied
    /\ entries = 2
    /\ entry_time # None

\* C12: a region is either accumulating or resolved: while occupied is True
\* its exit_time and duration hold no value of an earlier interval (they are
\* as initialize_occupancy_status left them), and while occupied is False
\* after an exit its duration is exit_time minus entry_time.
C12_AccumulatingOrResolved ==
    /\ occupied => (exit_time = None /\ duration = 0)
    /\ (~occupied /\ exits > 0) => duration = exit_time - entry_time

\* the entry condition and the exit condition of update_occupancy_status, as
\* they stand on the frame just processed
EntryConditionFires ==
    Last(final_log') /\ ~occupied /\ enter_counters' >= EnterThreshold
ExitConditionFires ==
    ~Last(final_log') /\ occupied /\ leave_counters' >= ExitThreshold

\* C13: an update on which neither the entry condition nor the exit
\* condition fires leaves occupied, entry_time, exit_time, duration,
\* person_id and self.records unchanged.
C13_QuietFrameKeepsStatus ==
    [][(FrameStep /\ ~EntryConditionFires /\ ~ExitConditionFires) =>
          UNCHANGED <<occupied, entry_time, exit_time, duration, person_id,
                      records>>]_vars

\* frames on which no condition fired have moved the counters and the
\* history of an Occupied region
C13_Witness ==
    /\ occupied
    /\ entries = 1
    /\ leave_counters > 0
    /\ leave_counters < ExitThreshold
    /\ Len(occupancy_history) = HistoryLen

\* the state initialize_occupancy_status leaves a region in
Free ==
    /\ ~occupied
    /\ entry_time = None
    /\ exit_time = None
    /\ enter_counters = 0
    /\ leave_counters = 0

JustConstructed == pc = "loop" /\ frames = 0

\* C14: when the configuration file is missing or is not valid JSON,
\* construction does not fail: it proceeds with the default configuration,
\* whose one seat has id 1.
C14_ConstructionNeverFails ==
    ~config_file.readable =>
        (pc # "failed" /\ seat_regions = <<DefaultSeatId>>)

\* C15 (as stated): after construction every region listed in the
\* configuration has a state, and it is Free.
C15_EveryListedRegionHasState ==
    JustConstructed =>
        /\ \A i \in DOMAIN config_file.seats :
              config_file.seats[i] \in StatusKeys(seat_regions)
        /\ Free

\* C15 (amended): after construction exactly one region has a state, and it
\* is Free: the first region listed in the configuration, or the default
\* region with id 1 when the configuration lists none; the regions listed
\* after the first have no state.
C15_FirstListedRegionHasState ==
    JustConstructed =>
        /\ StatusKeys(seat_regions) =
              {IF config_file.seats # <<>> THEN config_file.seats[1]
               ELSE DefaultSeatId}
        /\ Free

\* a monitor constructed from a configuration that lists two regions
C15_Witness ==
    /\ JustConstructed
    /\ Len(config_file.seats) = 2
    /\ StatusKeys(seat_regions) = {config_file.seats[1]}
    /\ Free

\* now - last_save_time >= save_interval, on the frame just processed
SaveDue == now' - last_save_time >= Seconds(SaveInterval)

\* C16: on every update save_current_state is called if and only if
\* now - last_save_time >= save_interval, and last_save_time becomes now
\* exactly then; so a periodic snapshot is never less than save_interval
\* after the one before it.
C16_SnapshotExactlyWhenDue ==
    [][FrameStep =>
          /\ save_attempted' <=> SaveDue
          /\ last_save_time' = IF SaveDue THEN now' ELSE last_save_time
          /\ save_attempted' => now' - last_save_time >= Seconds(SaveInterval)]_vars

\* the steps by which the program itself goes on
ProgramStep == Replay \/ Quit \/ LoopExit

C18_FinalSnapshotAttempted ==
    pc = "closed" =>
        /\ final_save
        /\ ~write_failed =>
              state_file = Snapshot(now, occupied, entry_time, exit_time,
                                    duration, person_id, last_report_generation)

\* the loop was left by KeyboardInterrupt during an interval, camera.stop
\* raised, and the snapshot was written
C18_Witness ==
    /\ pc = "closed"
    /\ running
    /\ cleanup_raised
    /\ final_save
    /\ occupied
    /\ ~write_failed
    /\ state_file.occupied

\* C19: once 'q' has been pressed the loop goes on to terminate: while the
\* process is not closed and frames are still to come, a step of the program
\* is possible.
C19_StopRequestIsServed ==
    (key_q /\ pc # "closed" /\ script # <<>>) => ENABLED ProgramStep

RECURSIVE SumOf(_, _)
SumOf(f, S) ==
    IF S = {} THEN 0
    ELSE LET x == CHOOSE y \in S : TRUE IN f[x] + SumOf(f, S \ {x})

\* the rows of the day's file that belong to a seat, and the sum of
\* duration_seconds over a set of rows
RowsOf(seat) == {i \in DOMAIN records_csv : records_csv[i].seat_name = seat}
SecondsOver(I) == SumOf([i \in DOMAIN records_csv |-> records_csv[i].duration_seconds], I)

ReportWritten == reports # {}

\* a figure printed in hundredths of an hour is the nearest to the seconds
NearestHundredth(h, seconds) ==
    /\ 2 * (h * SecondsPerHour - seconds * 100) <= SecondsPerHour
    /\ 2 * (seconds * 100 - h * SecondsPerHour) <= SecondsPerHour

\* C20 (as stated): the report's total record count is the number of
\* records and its total duration is the sum of all duration_seconds; each
\* region's count and duration are the count and the sum over that region's
\* records; the per-region counts and durations add up to the totals.
C20_ReportFiguresAreExactSums ==
    ReportWritten =>
        LET seats == DOMAIN last_report.seats IN
        /\ last_report.total_records = Len(records_csv)
        /\ last_report.total_hours * SecondsPerHour = SecondsOver(DOMAIN records_csv) * 100
        /\ \A s \in seats :
              /\ last_report.seats[s].count = Cardinality(RowsOf(s))
              /\ last_report.seats[s].hours * SecondsPerHour = SecondsOver(RowsOf(s)) * 100
        /\ SumOf([s \in seats |-> last_report.seats[s].count], seats)
              = last_report.total_records
        /\ SumOf([s \in seats |-> last_report.seats[s].hours], seats)
              = last_report.total_hours

\* C20 (amended): the report's total record count is the number of records;
\* the regions reported are those with a record, each with the number of
\* its records, and these counts add up to the total count.  Durations are
\* printed in hours to two decimals: the total is the hundredth of an hour
\* nearest the sum of all duration_seconds, and each region's figure is the
\* hundredth nearest the sum over that region's records; the printed
\* per-region figures differ from the printed total by at most one
\* hundredth per region, and need not add up to it.
C20_ReportFiguresAreRoundedSums ==
    ReportWritten =>
        LET seats == DOMAIN last_report.seats IN
        /\ last_report.total_records = Len(records_csv)
        /\ NearestHundredth(last_report.total_hours, SecondsOver(DOMAIN records_csv))
        /\ seats = {s \in SeatNames : RowsOf(s) # {}}
        /\ \A s \in seats :
              /\ last_report.seats[s].count = Cardinality(RowsOf(s))
              /\ NearestHundredth(last_report.seats[s].hours, SecondsOver(RowsOf(s)))
        /\ SumOf([s \in seats |-> last_report.seats[s].count], seats)
              = last_report.total_records
        /\ LET shown == SumOf([s \in seats |-> last_report.seats[s].hours], seats)
           IN  /\ shown - last_report.total_hours <= Cardinality(seats)
               /\ last_report.total_hours - shown <= Cardinality(seats)

\* a report over a file with rows of two regions, whose printed per-region
\* hours do not add up to the printed total
C20_Witness ==
    /\ ReportWritten
    /\ pc = "closed"
    /\ Cardinality(DOMAIN last_report.seats) = 2
    /\ last_report.total_records = MaxRows
    /\ last_report.seats["A"].hours + last_report.seats["B"].hours
          # last_report.total_hours

\* generate_daily_report has been called
ReportAsked == report_call.calls > 0

\* the day asked for has no records: no file, a file of no bytes, or a
\* header line without rows
NoRecords == csv_kind # "table" \/ records_csv = <<>>

\* C21 (as stated): asking for the daily summary of a day without records
\* gives the caller a no-data error, distinguishable from a successful
\* summary, and produces no report.
C21_NoDataIsSignalled ==
    (ReportAsked /\ NoRecords) =>
        /\ report_call.outcome = "no_data"
        /\ ~report_call.wrote
        /\ reports = {}

\* C21 (amended): generate_daily_report returns None to its caller whatever
\* it found, and tells the outcome only to the log.  Without a records file,
\* or with one that cannot be read as a table, it writes no report; with a
\* file that holds a header line and no rows it writes a report whose totals
\* are zero.
C21_NoDataIsOnlyLogged ==
    ReportAsked =>
        /\ report_call.outcome = "returned"
        /\ csv_kind # "table" => (~report_call.wrote /\ reports = {})
        /\ csv_kind = "table" =>
              /\ report_call.wrote
              /\ report_call.day \in reports
              /\ records_csv = <<>> =>
                    /\ last_report.total_records = 0
                    /\ last_report.total_hours = 0
                    /\ DOMAIN last_report.seats = {}

\* the report of a file with a header line and no rows has been written
C21_Witness ==
    /\ ReportAsked
    /\ csv_kind = "table"
    /\ records_csv = <<>>
    /\ report_call.wrote
    /\ report_call.outcome = "returned"

\* the history window of the frame just processed: the most recent
\* min(n, 15) raw detections
Window == LastN(raw_log, HistoryLen)

\* C24: a frame is judged occupied exactly when at least 80% of the raw
\* detections in the history window are positive; a window with exactly 80%
\* positives is judged occupied.
C24_OccupiedAtEightyPercent ==
    frames > 0 =>
        (Last(final_log) <=> CountTrue(Window) * 5 >= 4 * Len(Window))

\* the least number of positives that makes a full history window exceed
\* 80%, and the lengths of the runs of equal detections after which the
\* region has settled whatever the window and the counters held before: the
\* window has to turn, and then the counter has to reach its threshold
LeastMajority == (8 * HistoryLen) \div 10 + 1
PositivesToSettle == LeastMajority + EnterThreshold - 1
NegativesToSettle == (HistoryLen - LeastMajority + 1) + ExitThreshold - 1

C26_EntriesAndExitsAlternate ==
    /\ entries - exits \in {0, 1}
    /\ (entries - exits = 1) <=> occupied

\* a second interval is open after the first was closed
C26_Witness ==
    /\ entries = 2
    /\ exits = 1
    /\ occupied
    /\ exit_time < entry_time

\* the records of self.records that lack an exit_time
OpenRecords == {i \in DOMAIN records : ~Completed(records[i])}

\* C27: at most one record of self.records lacks an exit_time; such a record
\* is the last of the list and carries the current person_id, and there is
\* one exactly when the region is Occupied.
C27_OneOpenRecordWhileOccupied ==
    /\ Cardinality(OpenRecords) <= 1
    /\ \A i \in OpenRecords :
          /\ i = Len(records)
          /\ records[i].person_id = person_id
    /\ (OpenRecords # {}) <=> occupied

\* the open record of a second interval follows the completed record of the
\* first
C27_Witness ==
    /\ occupied
    /\ Len(records) = 2
    /\ OpenRecords = {2}
    /\ records[2].person_id = person_id

\* the finally block runs: the process goes from the loop to closed
ShutdownStep == pc # "closed" /\ pc' = "closed"

\* C28: a shutdown while the region is Occupied leaves the interval in
\* progress unresolved: it performs no exit transition, the interval's
\* record gets no exit_time and no duration_seconds, and the final snapshot,
\* when it is written, shows the region occupied with its entry_time.
C28_ShutdownLeavesIntervalOpen ==
    [][(ShutdownStep /\ occupied) =>
          /\ occupied'
          /\ exits' = exits
          /\ UNCHANGED <<entry_time, exit_time, duration, person_id, records>>
          /\ records' # <<>>
          /\ ~Completed(Last(records'))
          /\ Last(records').duration_seconds = None
          /\ (final_save' /\ ~write_failed') =>
                /\ state_file'.occupied
                /\ state_file'.entry_time = entry_time
                /\ state_file'.timestamp = now]_vars

\* the process was stopped by 'q' during an interval, and the snapshot of
\* the Occupied region is on disk
C28_Witness ==
    /\ pc = "closed"
    /\ ~running
    /\ occupied
    /\ entries = 1 /\ exits = 0
    /\ ~Completed(Last(records))
    /\ ~write_failed
    /\ state_file.occupied
    /\ state_file.entry_time = entry_time
    /\ entry_time < now

\* the date of the frame just processed is later than last_report_generation
DateRolled == DateOf(now') > last_report_generation

Routes(srv) ==
    IF srv = "web_server"
    THEN {"/", "/video_feed", "/status"}
    ELSE IF srv = "web_server_debug"
         THEN {"/", "/video_feed", "/status", "/test_image"}
         ELSE {"/static_image", "/static_image_test.html",
               "/web_monitor_debug.html", "/", "/video_feed", "/test_image"}

\* the routes whose handler looks at request.authorization
AuthChecked(srv) ==
    IF srv \in {"web_server", "web_server_debug"}
    THEN {"/", "/video_feed"}
    ELSE {}

\* what a request carries as Authorization: nothing, a pair that is not the
\* configured one, or the configured username and password
Credentials == {"none", "wrong", "right"}

\* if auth_required: if not auth or auth.username != ... or auth.password
\* != ...: return Response('需要认证', 401, ...)
Denied(srv, route, required, auth) ==
    /\ route \in AuthChecked(srv)
    /\ required
    /\ auth # "right"

\* what a handler that is not refused returns
Body(route) ==
    IF route = "/video_feed" THEN "stream"
    ELSE IF route = "/status" THEN "status"
    ELSE IF route = "/test_image" THEN "test_image"
    ELSE IF route = "/static_image" THEN "image"
    ELSE "page"

\* a frame image all of whose chunks are written
Frame(id) == [i \in 1 .. FrameChunks |-> id]

Complete(bytes) == \E id \in 0 .. MaxSaved : bytes = Frame(id)

\* the bytes of a file after chunk v is written at position p
WriteAt(bytes, p, v) ==
    [i \in 1 .. Max({Len(bytes), p}) |->
        IF i = p THEN v ELSE IF i <= Len(bytes) THEN bytes[i] ELSE Hole]

\* frame = cv2.imread(file); if frame is not None: whether the bytes read
\* decode to an image. A whole image decodes, no bytes do not, and of the
\* bytes of an image cut short or mixed the decoder makes an image or None.
Imread(buf) ==
    IF Complete(buf) THEN {TRUE}
    ELSE IF buf = <<>> THEN {FALSE}
    ELSE BOOLEAN

\* A request to a route other than /test_image: the handler answers in one
\* step; an accepted /video_feed starts the generator.
Request(route, auth) ==
    /\ route \in Routes(server) \ {"/test_image"}
    /\ IF Denied(server, route, auth_required, auth)
       THEN /\ response' = [route |-> route, authorized |-> auth = "right",
                            code |-> 401, body |-> "none"]
            /\ UNCHANGED stream
       ELSE /\ route = "/video_feed" => stream.pc = "off"
            /\ response' = [route |-> route, authorized |-> auth = "right",
                            code |-> 200, body |-> Body(route)]
            /\ stream' = IF route = "/video_feed"
                         THEN [pc |-> "loop", buf |-> <<>>]
                         ELSE stream
    /\ UNCHANGED <<server, auth_required, frame_file, saver, saved,
                   test_image, streamed>>
    /\ UNCHANGED monitorvars

\* /test_image: cv2.imwrite(self.frame_file, test_img) opens the file for
\* writing, which empties it
TestImageOpen ==
    /\ "/test_image" \in Routes(server)
    /\ test_image.pc = "idle"
    /\ test_image' = [pc |-> "writing", pos |-> 1]
    /\ frame_file' = [exists |-> TRUE, bytes |-> <<>>]
    /\ UNCHANGED <<server, auth_required, saver, saved, stream, streamed,
                   response>>
    /\ UNCHANGED monitorvars

\* cv2.imwrite writes the next chunk of the encoded image
TestImageWrite ==
    /\ test_image.pc = "writing"
    /\ frame_file' = [frame_file EXCEPT
                         !.bytes = WriteAt(@, test_image.pos, TestImageId)]
    /\ test_image' = IF test_image.pos = FrameChunks
                     THEN [pc |-> "written", pos |-> 0]
                     ELSE [test_image EXCEPT !.pos = @ + 1]
    /\ UNCHANGED <<server, auth_required, saver, saved, stream, streamed,
                   response>>
    /\ UNCHANGED monitorvars

\* the handler returns its success message
TestImageReturn ==
    /\ test_image.pc = "written"
    /\ test_image' = [pc |-> "idle", pos |-> 0]
    /\ response' = [route |-> "/test_image", authorized |-> FALSE,
                    code |-> 200, body |-> Body("/test_image")]
    /\ UNCHANGED <<server, auth_required, frame_file, saver, saved, stream,
                   streamed>>
    /\ UNCHANGED monitorvars

\* _save_frame_to_shared: open(self.shared_frame_path, 'wb') empties the
\* file
SaveOpen ==
    /\ saver.pc = "idle"
    /\ saved < MaxSaved
    /\ saver' = [pc |-> "opened", id |-> saved + 1]
    /\ frame_file' = [exists |-> TRUE, bytes |-> <<>>]
    /\ UNCHANGED <<server, auth_required, saved, test_image, stream,
                   streamed, response>>
    /\ UNCHANGED monitorvars

\* f.write(...) and the end of the with block: the buffered bytes of the
\* frame go to the file in one piece, from its start
SaveWrite ==
    /\ saver.pc = "opened"
    /\ frame_file' = [frame_file EXCEPT !.bytes = Frame(saver.id)]
    /\ saver' = [pc |-> "idle", id |-> 0]
    /\ saved' = saved + 1
    /\ UNCHANGED <<server, auth_required, test_image, stream, streamed,
                   response>>
    /\ UNCHANGED monitorvars

\* generate_video_frames, shared mode: if os.path.exists(self.frame_file);
\* when it does not, the waiting picture is yielded
StreamExists ==
    /\ stream.pc = "loop"
    /\ stream' = IF frame_file.exists
                 THEN [pc |-> "imread", buf |-> <<>>]
                 ELSE [pc |-> "sleep", buf |-> <<>>]
    /\ UNCHANGED <<server, auth_required, frame_file, saver, saved,
                   test_image, streamed, response>>
    /\ UNCHANGED monitorvars

\* cv2.imread reads the next chunk of the file, or finds its end
StreamRead ==
    /\ stream.pc = "imread"
    /\ stream' = IF Len(stream.buf) < Len(frame_file.bytes)
                 THEN [stream EXCEPT
                          !.buf = Append(@, frame_file.bytes[Len(@) + 1])]
                 ELSE [stream EXCEPT !.pc = "decode"]
    /\ UNCHANGED <<server, auth_required, frame_file, saver, saved,
                   test_image, streamed, response>>
    /\ UNCHANGED monitorvars

\* if frame is not None: the image is encoded and yielded
StreamDecode ==
    /\ stream.pc = "decode"
    /\ \E decoded \in Imread(stream.buf) :
          streamed' = IF ~decoded THEN streamed
                      ELSE IF Complete(stream.buf) THEN "whole" ELSE "torn"
    /\ stream' = [pc |-> "sleep", buf |-> <<>>]
    /\ UNCHANGED <<server, auth_required, frame_file, saver, saved,
                   test_image, response>>
    /\ UNCHANGED monitorvars

\* time.sleep(1 / framerate), and the loop starts over
StreamSleep ==
    /\ stream.pc = "sleep"
    /\ stream' = [pc |-> "loop", buf |-> <<>>]
    /\ UNCHANGED <<server, auth_required, frame_file, saver, saved,
                   test_image, streamed, response>>
    /\ UNCHANGED monitorvars

\* one of the three servers runs beside a freshly constructed monitor
WebInit ==
    /\ config_file = OneSeat
    /\ faults = {}
    /\ csv_kind = "absent"
    /\ records_csv = <<>>
    /\ InitMonitor
    /\ script = <<>>
    /\ server \in Servers
    /\ auth_required \in BOOLEAN
    /\ frame_file = [exists |-> FALSE, bytes |-> <<>>]
    /\ saver = [pc |-> "idle", id |-> 0]
    /\ saved = 0
    /\ test_image = [pc |-> "idle", pos |-> 0]
    /\ stream = [pc |-> "off", buf |-> <<>>]
    /\ streamed = "none"
    /\ response = NoResponse

Serve ==
    \E route \in Routes(server), auth \in Credentials : Request(route, auth)

WebNext ==
    \/ Serve
    \/ TestImageOpen
    \/ TestImageWrite
    \/ TestImageReturn
    \/ SaveOpen
    \/ SaveWrite
    \/ StreamExists
    \/ StreamRead
    \/ StreamDecode
    \/ StreamSleep

WebSpec == WebInit /\ [][WebNext]_vars

\* a step of a request handler thread
HandlerStep ==
    \/ response' # response
    \/ test_image' # test_image
    \/ stream' # stream
    \/ streamed' # streamed

\* C22: no request handler of any of the web servers writes
\* shared_frames/current_frame.jpg or any occupancy state; the HTTP side
\* only reads the frame file.
C22_HandlersOnlyRead ==
    [][HandlerStep => /\ frame_file' = frame_file
                      /\ UNCHANGED monitorvars]_vars

\* a writer has opened the frame file and not yet written all of the frame
Writing == saver.pc = "opened" \/ test_image.pc = "writing"

\* the stream has started to read the frame file and not yet found its end
Reading == stream.pc = "imread"

\* C23: the capture side's write of the frame file and web_server's read of
\* it never overlap, and what the stream has read when it decodes is a
\* whole frame.
C23_FrameAccessIsExclusive ==
    server = "web_server" =>
        /\ ~(Writing /\ Reading)
        /\ stream.pc = "decode" => Complete(stream.buf)

\* C30: with web.auth_required true, web_server answers a request that
\* lacks the configured username and password with 401 and no page, stream
\* or status data, on each of '/', '/video_feed' and '/status'.
C30_EveryEndpointAsksForCredentials ==
    (/\ server = "web_server"
     /\ auth_required
     /\ response.route \in Routes("web_server")
     /\ ~response.authorized)
    => (response.code = 401 /\ response.body = "none")

====
